---- MODULE Spec2Model ----
(***************************************************************************)
(* A model of the robot command client of OT2-Onboarding                   *)
(* (src/opentrons.py, class opentronsClient).                              *)
(*                                                                         *)
(* One session object talks to one remote robot controller.  Every method  *)
(* of the client builds a request, blocks in requests.post / requests.get  *)
(* until the remote answers, and then returns or raises.  A method is      *)
(* therefore modelled by the step up to the blocking call (named after the *)
(* method) and the step that runs from the answer to the return or raise   *)
(* (named <method>_response); the remote's answer is an input of the       *)
(* second step.                                                            *)
(***************************************************************************)
EXTENDS Integers, Sequences, FiniteSets, TLC

VARIABLES
    pc,          \* "start" | "wait" | "ready" | "failed": where the caller is
    robotIP,     \* self.robotIP
    runID,       \* self.runID
    commandURL,  \* self.commandURL
    labware,     \* self.labware : alias -> [id, slot]
    pipettes,    \* self.pipettes : pipette name -> [id, mount]
    frame,       \* the method blocked in requests.post/get, with its locals
    wire,        \* the request the remote has not answered yet
    nSent,       \* number of requests this session has emitted so far
    outcome,     \* how the call ended (return value or exception), none while it runs
    line,        \* the statement of the script that runs or is next; 0: no script
    ids,         \* the script's strID_... variables: name -> alias a load returned
    fill,        \* the fillWell call in progress: where it is and its intVolume
    hist         \* what the script has issued so far (read by properties only)

vars == <<pc, robotIP, runID, commandURL, labware, pipettes, frame, wire, nSent, outcome,
          line, ids, fill, hist>>

\* a caller other than the script: the script's variables stay as they are
Free == UNCHANGED <<line, ids, fill, hist>>

(***************************************************************************)
(* Bounds of the model.                                                    *)
(***************************************************************************)
\* a session is followed until it has emitted this many requests
MaxRequests == 4

(***************************************************************************)
(* Values.                                                                 *)
(***************************************************************************)
\* Python's None (str(None) = "None" inside an f-string)
None == "None"

\* a JSON path that is absent from a response body
Missing == "<missing>"

\* robot addresses a session is constructed with
RobotIPs == {"100.67.86.197"}

\* arguments of the calls
Slots == {1, 10}
LabwareNames == {"opentrons_96_tiprack_1000ul", "nis_2_wellplate_30000ul"}
Namespaces == {"opentrons"}
Versions == {1}
PipetteNames == {"p1000_single_gen2", "p300_single_gen2"}
Mounts == {"left", "right"}
WellNames == {"A1"}
Volumes == {400}

\* HTTP status codes the remote may answer with
Statuses == {200, 201, 500}

\* the empty dict {}
EmptyDict == [k \in {} |-> None]

(***************************************************************************)
(* Response bodies.  A body is a JSON document; only the paths the client  *)
(* reads are kept: data.id, data.result.labwareId, data.result.pipetteId   *)
(* and data.labware.  An absent path has the value Missing (reading it     *)
(* raises KeyError in the client).  data.status, by which the remote       *)
(* reports a command as succeeded or failed, is kept as well: the client   *)
(* logs the body and does not read the path.                               *)
(***************************************************************************)
Doc(id, labwareId, pipetteId, hasLabware, lst, status) ==
    [id |-> id, labwareId |-> labwareId, pipetteId |-> pipetteId,
     hasLabware |-> hasLabware, labware |-> lst, status |-> status]

RunLabwareEntry(id, uri, slotName) ==
    [id |-> id, definitionUri |-> uri, slotName |-> slotName]

\* a body with none of the paths (an error document, or no JSON at all)
EmptyText == Doc(Missing, Missing, Missing, FALSE, <<>>, Missing)

\* the bodies the remote answers with: two documents that hold every path
\* the client reads, with different ids, the second of which reports the
\* command as failed, and one that holds none of the paths
Bodies ==
    { Doc("run-a", "lw-1", "pip-1", TRUE,
          <<RunLabwareEntry("lw-1", "opentrons/opentrons_96_tiprack_1000ul/1", "1")>>,
          "succeeded"),
      Doc("run-b", "lw-2", "pip-2", TRUE,
          <<RunLabwareEntry("lw-1", "custom_beta/nis_2_wellplate_30000ul/2", "10"),
            RunLabwareEntry("lw-2", "custom_beta/nis_2_wellplate_30000ul/2", "3"),
            RunLabwareEntry("lw-2", "opentrons/opentrons_96_tiprack_1000ul/1", "1")>>,
          "failed"),
      EmptyText }

\* what the remote may answer to a request
Responses == [status_code : Statuses, text : Bodies]

(***************************************************************************)
(* Outcomes of a call.                                                     *)
(***************************************************************************)
NoError == [kind |-> "none", code |-> 0, text |-> EmptyText, key |-> None]

NoOutcome == [status |-> "none", value |-> None, info |-> EmptyText, error |-> NoError]

\* return <a string or None>
Returned(value) ==
    [status |-> "returned", value |-> value, info |-> EmptyText, error |-> NoError]

\* return dicRunInfo
ReturnedInfo(doc) ==
    [status |-> "returned", value |-> "dicRunInfo", info |-> doc, error |-> NoError]

Raised(error) == [status |-> "raised", value |-> None, info |-> EmptyText, error |-> error]

\* variant: the exception reports the status code and drops the body
HttpError_withoutBody(message, response) ==
    [kind |-> message, code |-> response.status_code, text |-> EmptyText, key |-> None]

\* raise Exception(f"<message>\nError code: {status_code}\n Error message: {text}")
HttpError(message, response) ==
    [kind |-> message, code |-> response.status_code, text |-> response.text, key |-> None]

\* KeyError(key): a dict lookup of an absent key
KeyError(key) == [kind |-> "KeyError", code |-> 0, text |-> EmptyText, key |-> key]

\* raise Exception(<message>) of a local check
LocalError(message) == [kind |-> message, code |-> 0, text |-> EmptyText, key |-> None]

NoFrame == [op |-> "none"]

NoRequest == [method |-> "none"]

\* a request sent without data
NoData == [empty |-> TRUE]

(***************************************************************************)
(* Steps shared by all methods.                                            *)
(***************************************************************************)
\* requests.post / requests.get: the request leaves and the method blocks
Send(request, fr) ==
    /\ pc' = "wait"
    /\ wire' = request
    /\ frame' = fr
    /\ nSent' = nSent + 1
    /\ outcome' = NoOutcome

\* the method returns or raises to the caller
Finish(result) ==
    /\ pc' = "ready"
    /\ wire' = NoRequest
    /\ frame' = NoFrame
    /\ outcome' = result
    /\ UNCHANGED nSent

(***************************************************************************)
(* Construction: __init__ and _initalizeRun.                               *)
(***************************************************************************)
\* strRunURL = f"http://{self.robotIP}:31950/runs"
RunURL(ip) == "http://" \o ip \o ":31950/runs"

\* variant: the command URL is built without the run id
CommandURL_withoutRunID(strRunURL, id) == strRunURL \o "/commands"

\* self.commandURL = strRunURL + f"/{self.runID}/commands"
CommandURL(strRunURL, id) == strRunURL \o "/" \o id \o "/commands"

init(strRobotIP) ==
    /\ pc = "start"
    /\ robotIP' = strRobotIP
    /\ runID' = None
    /\ commandURL' = None
    /\ labware' = EmptyDict
    /\ pipettes' = EmptyDict
    /\ Send([method |-> "POST", url |-> RunURL(strRobotIP), query |-> "", data |-> NoData],
            [op |-> "_initalizeRun"])

\* variant: a refused run creation is logged and the constructor returns
initalizeRun_response_logsFailure(response) ==
    /\ pc = "wait"
    /\ frame.op = "_initalizeRun"
    /\ IF response.status_code = 201 /\ response.text.id # Missing
       THEN /\ runID' = response.text.id
            /\ commandURL' = CommandURL(RunURL(robotIP), response.text.id)
       ELSE UNCHANGED <<runID, commandURL>>
    /\ pc' = "ready"
    /\ outcome' = Returned(None)
    /\ wire' = NoRequest
    /\ frame' = NoFrame
    /\ UNCHANGED <<robotIP, labware, pipettes, nSent>>

initalizeRun_response(response) ==
    /\ pc = "wait"
    /\ frame.op = "_initalizeRun"
    /\ IF response.status_code = 201
       THEN IF response.text.id = Missing
            THEN \* dicResponse['data']['id'] raises, the constructor does not return
                 /\ pc' = "failed"
                 /\ outcome' = Raised(KeyError("id"))
                 /\ UNCHANGED <<runID, commandURL>>
            ELSE /\ pc' = "ready"
                 /\ runID' = response.text.id
                 /\ commandURL' = CommandURL(RunURL(robotIP), response.text.id)
                 /\ outcome' = Returned(None)
       ELSE /\ pc' = "failed"
            /\ outcome' = Raised(HttpError("Failed to create a new run.", response))
            /\ UNCHANGED <<runID, commandURL>>
    /\ wire' = NoRequest
    /\ frame' = NoFrame
    /\ UNCHANGED <<robotIP, labware, pipettes, nSent>>

(***************************************************************************)
(* Requests.  Of a command's params only the fields a property reads are   *)
(* kept (ids, names, slot, well, volume); offsets, flow rates and speeds   *)
(* are passed through to the remote unchanged and are left out.            *)
(***************************************************************************)
\* requests.post(url=self.commandURL, params={"waitUntilComplete": True}, data=...)
CommandRequest(dicCommand) ==
    [method |-> "POST", url |-> commandURL, query |-> "waitUntilComplete=True",
     data |-> dicCommand]

\* f"http://{self.robotIP}:31950/runs/{self.runID}/<endpoint>"
RunScopedURL(endpoint) ==
    "http://" \o robotIP \o ":31950/runs/" \o runID \o endpoint

\* f"http://{self.robotIP}:31950/robot/<endpoint>"
RobotURL(endpoint) == "http://" \o robotIP \o ":31950/robot/" \o endpoint

\* variant: the dict is replaced by one that holds the new key only
DictSet_freshDict(d, k, v) == (k :> v)

\* d[k] = v
DictSet(d, k, v) == (k :> v) @@ d

\* the registries and the run are left as they are
SessionUnchanged == UNCHANGED <<robotIP, runID, commandURL, labware, pipettes>>

\* variant: a second thread may call while a request is outstanding
CanCall_whileWaiting(nRequests) ==
    pc \in {"ready", "wait"} /\ frame.op # "_initalizeRun" /\ nSent + nRequests <= MaxRequests

\* a call starts when the caller holds a constructed session
CanCall(nRequests) ==
    pc = "ready" /\ (line = 0 => nSent + nRequests <= MaxRequests)

(***************************************************************************)
(* getRunInfo                                                              *)
(***************************************************************************)
RunInfoRequest == [method |-> "GET", url |-> RunScopedURL(""), query |-> "", data |-> NoData]

getRunInfo ==
    /\ CanCall(1)
    /\ Send(RunInfoRequest, [op |-> "getRunInfo", via |-> "caller"])
    /\ SessionUnchanged

(***************************************************************************)
(* loadLabware, loadCustomLabware                                          *)
(***************************************************************************)
\* variant: the alias is the labware name alone
LabwareIdentifier_nameOnly(strLabwareName, intSlot) == strLabwareName

\* strLabwareIdentifier_temp = strLabwareName + "_" + str(intSlot)
LabwareIdentifier(strLabwareName, intSlot) == strLabwareName \o "_" \o ToString(intSlot)

LoadLabwareCommand(intSlot, strLabwareName, strNamespace, intVersion, strIntent) ==
    [commandType |-> "loadLabware",
     params |-> [location |-> [slotName |-> ToString(intSlot)],
                 loadName |-> strLabwareName,
                 namespace |-> strNamespace,
                 version |-> ToString(intVersion)],
     intent |-> strIntent]

LoadLabwareFrame(intSlot, strLabwareName, via) ==
    [op |-> "loadLabware", intSlot |-> intSlot, strLabwareName |-> strLabwareName,
     via |-> via]

loadLabware(intSlot, strLabwareName, strNamespace, intVersion, strIntent) ==
    /\ CanCall(1)
    /\ Send(CommandRequest(LoadLabwareCommand(intSlot, strLabwareName, strNamespace,
                                              intVersion, strIntent)),
            LoadLabwareFrame(intSlot, strLabwareName, "caller"))
    /\ SessionUnchanged

\* variant: a registered alias keeps its first entry (dict.setdefault)
RegisterLabware_keepsFirst(reg, strLabwareIdentifier, strLabwareID, intSlot) ==
    IF strLabwareIdentifier \in DOMAIN reg
    THEN reg
    ELSE (strLabwareIdentifier :> [id |-> strLabwareID, slot |-> intSlot]) @@ reg

\* self.labware[strLabwareIdentifier_temp] = {"id": strLabwareID, "slot": intSlot}
RegisterLabware(reg, strLabwareIdentifier, strLabwareID, intSlot) ==
    DictSet(reg, strLabwareIdentifier, [id |-> strLabwareID, slot |-> intSlot])

\* variant: the entry is written before the status is looked at
loadLabware_response_registersFirst(response) ==
    /\ pc = "wait"
    /\ frame.op = "loadLabware"
    /\ labware' = (LabwareIdentifier(frame.strLabwareName, frame.intSlot) :>
                      [id |-> response.text.labwareId, slot |-> frame.intSlot]) @@ labware
    /\ IF response.status_code = 201
       THEN Finish(Returned(LabwareIdentifier(frame.strLabwareName, frame.intSlot)))
       ELSE Finish(Raised(HttpError("Failed to load labware.", response)))
    /\ UNCHANGED <<robotIP, runID, commandURL, pipettes>>

\* runs for a direct call and for the call made by loadCustomLabware, which
\* returns what loadLabware returns and lets its exception through
loadLabware_response(response) ==
    /\ pc = "wait"
    /\ frame.op = "loadLabware"
    /\ IF response.status_code = 201
       THEN IF response.text.labwareId = Missing
            THEN /\ Finish(Raised(KeyError("labwareId")))
                 /\ UNCHANGED labware
            ELSE /\ labware' = RegisterLabware(labware,
                                    LabwareIdentifier(frame.strLabwareName, frame.intSlot),
                                    response.text.labwareId, frame.intSlot)
                 /\ Finish(Returned(LabwareIdentifier(frame.strLabwareName, frame.intSlot)))
       ELSE /\ Finish(Raised(HttpError("Failed to load labware.", response)))
            /\ UNCHANGED labware
    /\ UNCHANGED <<robotIP, runID, commandURL, pipettes>>

\* labware definitions as read from the labware/*.json files
CustomLabware ==
    { [parameters |-> [loadName |-> "nis_2_wellplate_30000ul"],
       namespace |-> "custom_beta", version |-> 2],
      [parameters |-> [loadName |-> "opentrons_96_tiprack_1000ul"],
       namespace |-> "opentrons", version |-> 1] }

loadCustomLabware(dicLabware, intSlot) ==
    /\ CanCall(2)
    /\ Send([method |-> "POST", url |-> RunScopedURL("/labware_definitions"),
             query |-> "", data |-> [data |-> dicLabware]],
            [op |-> "loadCustomLabware", dicLabware |-> dicLabware, intSlot |-> intSlot])
    /\ SessionUnchanged

\* variant: the status of the definition post is not looked at
loadCustomLabware_response_ignoresStatus(response) ==
    /\ pc = "wait"
    /\ frame.op = "loadCustomLabware"
    /\ Send(CommandRequest(LoadLabwareCommand(frame.intSlot,
                                              frame.dicLabware.parameters.loadName,
                                              frame.dicLabware.namespace,
                                              frame.dicLabware.version,
                                              "setup")),
            LoadLabwareFrame(frame.intSlot, frame.dicLabware.parameters.loadName,
                             "loadCustomLabware"))
    /\ SessionUnchanged

\* variant: loadLabware is called with its default namespace and version
loadCustomLabware_response_defaultNamespace(response) ==
    /\ pc = "wait"
    /\ frame.op = "loadCustomLabware"
    /\ IF response.status_code = 201
       THEN Send(CommandRequest(LoadLabwareCommand(frame.intSlot,
                                                   frame.dicLabware.parameters.loadName,
                                                   "opentrons", 1, "setup")),
                 LoadLabwareFrame(frame.intSlot, frame.dicLabware.parameters.loadName,
                                  "loadCustomLabware"))
       ELSE Finish(Raised(HttpError("Failed to load custom labware.", response)))
    /\ SessionUnchanged

loadCustomLabware_response(response) ==
    /\ pc = "wait"
    /\ frame.op = "loadCustomLabware"
    /\ IF response.status_code = 201
       THEN Send(CommandRequest(LoadLabwareCommand(frame.intSlot,
                                                   frame.dicLabware.parameters.loadName,
                                                   frame.dicLabware.namespace,
                                                   frame.dicLabware.version,
                                                   "setup")),
                 LoadLabwareFrame(frame.intSlot, frame.dicLabware.parameters.loadName,
                                  "loadCustomLabware"))
       ELSE Finish(Raised(HttpError("Failed to load custom labware.", response)))
    /\ SessionUnchanged

(***************************************************************************)
(* loadPipette                                                             *)
(***************************************************************************)
LoadPipetteCommand(strPipetteName, strMount) ==
    [commandType |-> "loadPipette",
     params |-> [pipetteName |-> strPipetteName, mount |-> strMount],
     intent |-> "setup"]

loadPipette(strPipetteName, strMount) ==
    /\ CanCall(1)
    /\ Send(CommandRequest(LoadPipetteCommand(strPipetteName, strMount)),
            [op |-> "loadPipette", strPipetteName |-> strPipetteName,
             strMount |-> strMount])
    /\ SessionUnchanged

\* variant: a registered pipette name keeps its first entry (dict.setdefault)
RegisterPipette_keepsFirst(reg, strPipetteName, strPipetteID, strMount) ==
    IF strPipetteName \in DOMAIN reg
    THEN reg
    ELSE (strPipetteName :> [id |-> strPipetteID, mount |-> strMount]) @@ reg

\* self.pipettes[strPipetteName] = {"id": strPipetteID, "mount": strMount}
RegisterPipette(reg, strPipetteName, strPipetteID, strMount) ==
    DictSet(reg, strPipetteName, [id |-> strPipetteID, mount |-> strMount])

loadPipette_response(response) ==
    /\ pc = "wait"
    /\ frame.op = "loadPipette"
    /\ IF response.status_code = 201
       THEN IF response.text.pipetteId = Missing
            THEN /\ Finish(Raised(KeyError("pipetteId")))
                 /\ UNCHANGED pipettes
            ELSE /\ pipettes' = RegisterPipette(pipettes, frame.strPipetteName,
                                                response.text.pipetteId, frame.strMount)
                 /\ Finish(Returned(None))
       ELSE /\ Finish(Raised(HttpError("Failed to load pipette.", response)))
            /\ UNCHANGED pipettes
    /\ UNCHANGED <<robotIP, runID, commandURL, labware>>

(***************************************************************************)
(* homeRobot                                                               *)
(***************************************************************************)
homeRobot ==
    /\ CanCall(1)
    /\ Send([method |-> "POST", url |-> RobotURL("home"), query |-> "",
             data |-> [target |-> "robot"]],
            [op |-> "homeRobot"])
    /\ SessionUnchanged

\* variant: a homed robot starts over with empty registries
homeRobot_response_clearsRegistries(response) ==
    /\ pc = "wait"
    /\ frame.op = "homeRobot"
    /\ IF response.status_code = 200
       THEN /\ Finish(Returned(None))
            /\ labware' = EmptyDict
            /\ pipettes' = EmptyDict
       ELSE /\ Finish(Raised(HttpError("Failed to home the robot.", response)))
            /\ UNCHANGED <<labware, pipettes>>
    /\ UNCHANGED <<robotIP, runID, commandURL>>

homeRobot_response(response) ==
    /\ pc = "wait"
    /\ frame.op = "homeRobot"
    /\ IF response.status_code = 200
       THEN Finish(Returned(None))
       ELSE Finish(Raised(HttpError("Failed to home the robot.", response)))
    /\ SessionUnchanged

(***************************************************************************)
(* The liquid-handling and motion commands.  Each builds its command dict  *)
(* first, which looks both aliases up (a KeyError leaves the method before *)
(* requests.post), then posts it and checks the status.                    *)
(***************************************************************************)
\* variant: the aliases are looked up with dict.get, an absent one goes to
\* the remote as a command without ids
LookupBoth_postsAnyway(reg1, key1, reg2, key2, request, fr) ==
    IF key1 \notin DOMAIN reg1 \/ key2 \notin DOMAIN reg2
    THEN Send([method |-> "POST", url |-> commandURL, query |-> "waitUntilComplete=True",
               data |-> [commandType |-> None]], fr)
    ELSE Send(request, fr)

\* the dict literal is evaluated in source order: the first absent key raises
LookupBoth(reg1, key1, reg2, key2, request, fr) ==
    IF key1 \notin DOMAIN reg1
    THEN Finish(Raised(KeyError(key1)))
    ELSE IF key2 \notin DOMAIN reg2
         THEN Finish(Raised(KeyError(key2)))
         ELSE Send(request, fr)

\* variant: the body of a 201 answer is read and a command it reports as
\* failed raises (the check that is commented out in blowout)
CommandResponse_readsStatus(message, response) ==
    /\ pc = "wait"
    /\ IF response.status_code = 201 /\ response.text.status # "failed"
       THEN Finish(Returned(None))
       ELSE Finish(Raised(HttpError(message, response)))
    /\ SessionUnchanged

\* variant: a refused command is posted again
CommandResponse_retries(message, response) ==
    /\ pc = "wait"
    /\ IF response.status_code = 201
       THEN Finish(Returned(None))
       ELSE IF nSent < MaxRequests
            THEN Send(wire, frame)
            ELSE Finish(Raised(HttpError(message, response)))
    /\ SessionUnchanged

\* if response.status_code == 201: (log) else: raise Exception(...)
CommandResponse(message, response) ==
    /\ pc = "wait"
    /\ IF response.status_code = 201
       THEN Finish(Returned(None))
       ELSE Finish(Raised(HttpError(message, response)))
    /\ SessionUnchanged

\* variant: the command carries the caller's aliases, not the remote ids
pickUpTip_sendsAliases(strLabwareName, strPipetteName, strWellName) ==
    /\ CanCall(1)
    /\ LookupBoth(labware, strLabwareName, pipettes, strPipetteName,
            CommandRequest([commandType |-> "pickUpTip",
                            params |-> [labwareId |-> strLabwareName,
                                        wellName |-> strWellName,
                                        pipetteId |-> strPipetteName],
                            intent |-> "setup"]),
            [op |-> "pickUpTip", strLabwareName |-> strLabwareName,
             strPipetteName |-> strPipetteName, strWellName |-> strWellName])
    /\ SessionUnchanged

pickUpTip(strLabwareName, strPipetteName, strWellName) ==
    /\ CanCall(1)
    /\ LookupBoth(labware, strLabwareName, pipettes, strPipetteName,
            CommandRequest([commandType |-> "pickUpTip",
                            params |-> [labwareId |-> labware[strLabwareName].id,
                                        wellName |-> strWellName,
                                        pipetteId |-> pipettes[strPipetteName].id],
                            intent |-> "setup"]),
            [op |-> "pickUpTip", strLabwareName |-> strLabwareName,
             strPipetteName |-> strPipetteName, strWellName |-> strWellName])
    /\ SessionUnchanged

pickUpTip_response(response) ==
    /\ frame.op = "pickUpTip"
    /\ CommandResponse("Failed to pick up tip.", response)

\* variant: dropTip is refused locally unless the call before it returned
\* normally (the client takes a tip to be held only then)
dropTip_needsTip(strPipetteName, strLabwareName, strWellName) ==
    /\ CanCall(1)
    /\ IF outcome.status # "returned"
       THEN Finish(Raised(LocalError("No tip attached.")))
       ELSE LookupBoth(pipettes, strPipetteName, labware, strLabwareName,
                CommandRequest([commandType |-> "dropTip",
                                params |-> [pipetteId |-> pipettes[strPipetteName].id,
                                            labwareId |-> labware[strLabwareName].id,
                                            wellName |-> strWellName],
                                intent |-> "setup"]),
                [op |-> "dropTip", strLabwareName |-> strLabwareName,
                 strPipetteName |-> strPipetteName, strWellName |-> strWellName])
    /\ SessionUnchanged

dropTip(strPipetteName, strLabwareName, strWellName) ==
    /\ CanCall(1)
    /\ LookupBoth(pipettes, strPipetteName, labware, strLabwareName,
            CommandRequest([commandType |-> "dropTip",
                            params |-> [pipetteId |-> pipettes[strPipetteName].id,
                                        labwareId |-> labware[strLabwareName].id,
                                        wellName |-> strWellName],
                            intent |-> "setup"]),
            [op |-> "dropTip", strLabwareName |-> strLabwareName,
             strPipetteName |-> strPipetteName, strWellName |-> strWellName])
    /\ SessionUnchanged

dropTip_response(response) ==
    /\ frame.op = "dropTip"
    /\ CommandResponse("Failed to drop tip.", response)

aspirate(strLabwareName, strWellName, strPipetteName, intVolume) ==
    /\ CanCall(1)
    /\ LookupBoth(labware, strLabwareName, pipettes, strPipetteName,
            CommandRequest([commandType |-> "aspirate",
                            params |-> [labwareId |-> labware[strLabwareName].id,
                                        wellName |-> strWellName,
                                        volume |-> ToString(intVolume),
                                        pipetteId |-> pipettes[strPipetteName].id],
                            intent |-> "setup"]),
            [op |-> "aspirate", strLabwareName |-> strLabwareName,
             strPipetteName |-> strPipetteName, strWellName |-> strWellName,
             intVolume |-> intVolume])
    /\ SessionUnchanged

aspirate_response(response) ==
    /\ frame.op = "aspirate"
    /\ CommandResponse("Failed to aspirate.", response)

dispense(strLabwareName, strWellName, strPipetteName, intVolume) ==
    /\ CanCall(1)
    /\ LookupBoth(labware, strLabwareName, pipettes, strPipetteName,
            CommandRequest([commandType |-> "dispense",
                            params |-> [labwareId |-> labware[strLabwareName].id,
                                        wellName |-> strWellName,
                                        volume |-> intVolume,
                                        pipetteId |-> pipettes[strPipetteName].id],
                            intent |-> "setup"]),
            [op |-> "dispense", strLabwareName |-> strLabwareName,
             strPipetteName |-> strPipetteName, strWellName |-> strWellName,
             intVolume |-> intVolume])
    /\ SessionUnchanged

dispense_response(response) ==
    /\ frame.op = "dispense"
    /\ CommandResponse("Failed to dispense.", response)

blowout(strLabwareName, strWellName, strPipetteName) ==
    /\ CanCall(1)
    /\ LookupBoth(labware, strLabwareName, pipettes, strPipetteName,
            CommandRequest([commandType |-> "blowout",
                            params |-> [labwareId |-> labware[strLabwareName].id,
                                        wellName |-> strWellName,
                                        pipetteId |-> pipettes[strPipetteName].id],
                            intent |-> "setup"]),
            [op |-> "blowout", strLabwareName |-> strLabwareName,
             strPipetteName |-> strPipetteName, strWellName |-> strWellName])
    /\ SessionUnchanged

\* variant: the post has a timeout, after which the method raises
blowout_response_timesOut(response) ==
    /\ pc = "wait"
    /\ frame.op = "blowout"
    /\ Finish(Raised(LocalError("Timed out.")))
    /\ SessionUnchanged

blowout_response(response) ==
    /\ frame.op = "blowout"
    /\ CommandResponse("Failed to blowout.", response)

moveToWell(strLabwareName, strWellName, strPipetteName) ==
    /\ CanCall(1)
    /\ LookupBoth(labware, strLabwareName, pipettes, strPipetteName,
            CommandRequest([commandType |-> "moveToWell",
                            params |-> [labwareId |-> labware[strLabwareName].id,
                                        wellName |-> strWellName,
                                        pipetteId |-> pipettes[strPipetteName].id],
                            intent |-> "setup"]),
            [op |-> "moveToWell", strLabwareName |-> strLabwareName,
             strPipetteName |-> strPipetteName, strWellName |-> strWellName])
    /\ SessionUnchanged

moveToWell_response(response) ==
    /\ frame.op = "moveToWell"
    /\ CommandResponse("Failed to move pipette.", response)

(***************************************************************************)
(* addLabwareOffsets (which calls getRunInfo)                              *)
(***************************************************************************)
\* the for loop keeps the values of the last entry whose id matches
Matches(lstLabware, strLabwareID) ==
    { i \in 1..Len(lstLabware) : lstLabware[i].id = strLabwareID }

\* variant: the first entry of the list is taken, whatever its id
LastMatch_firstEntry(lstLabware, strLabwareID) == lstLabware[1]

LastMatch(lstLabware, strLabwareID) ==
    lstLabware[CHOOSE i \in Matches(lstLabware, strLabwareID) :
                   \A j \in Matches(lstLabware, strLabwareID) : j <= i]

addLabwareOffsets(strLabwareName, vector) ==
    /\ CanCall(2)
    /\ IF strLabwareName \notin DOMAIN labware
       THEN Finish(Raised(KeyError(strLabwareName)))
       ELSE Send(RunInfoRequest,
                 [op |-> "getRunInfo", via |-> "addLabwareOffsets",
                  strLabwareID |-> labware[strLabwareName].id, vector |-> vector])
    /\ SessionUnchanged

OffsetRequest(dicLabware_temp, vector) ==
    [method |-> "POST", url |-> RunScopedURL("/labware_offsets"), query |-> "",
     data |-> [data |-> [definitionUri |-> dicLabware_temp.definitionUri,
                         location |-> [slotName |-> dicLabware_temp.slotName],
                         vector |-> [x |-> ToString(vector[1]),
                                     y |-> ToString(vector[2]),
                                     z |-> ToString(vector[3])]]]]

\* variant: getRunInfo stores the run id of the document it received
getRunInfo_response_refreshesRunID(response) ==
    /\ pc = "wait"
    /\ frame.op = "getRunInfo"
    /\ IF response.status_code # 200
       THEN /\ Finish(Raised(HttpError("Failed to get run information.", response)))
            /\ UNCHANGED runID
       ELSE /\ Finish(ReturnedInfo(response.text))
            /\ runID' = response.text.id
    /\ UNCHANGED <<robotIP, commandURL, labware, pipettes>>

\* variant: without a matching entry the offsets are posted with no
\* definition and no slot
getRunInfo_response_postsWithoutMatch(response) ==
    /\ pc = "wait"
    /\ frame.op = "getRunInfo"
    /\ IF response.status_code # 200
       THEN Finish(Raised(HttpError("Failed to get run information.", response)))
       ELSE IF frame.via = "caller"
       THEN Finish(ReturnedInfo(response.text))
       ELSE IF ~response.text.hasLabware
            THEN Finish(Raised(KeyError("labware")))
            ELSE IF Matches(response.text.labware, frame.strLabwareID) = {}
            THEN Send(OffsetRequest([definitionUri |-> None, slotName |-> None],
                                    frame.vector),
                      [op |-> "addLabwareOffsets"])
            ELSE Send(OffsetRequest(LastMatch(response.text.labware, frame.strLabwareID),
                                    frame.vector),
                      [op |-> "addLabwareOffsets"])
    /\ SessionUnchanged

getRunInfo_response(response) ==
    /\ pc = "wait"
    /\ frame.op = "getRunInfo"
    /\ IF response.status_code # 200
       THEN Finish(Raised(HttpError("Failed to get run information.", response)))
       ELSE IF frame.via = "caller"
       THEN Finish(ReturnedInfo(response.text))
       ELSE \* back in addLabwareOffsets with dicRunInfo
            IF ~response.text.hasLabware
            THEN Finish(Raised(KeyError("labware")))
            ELSE IF Matches(response.text.labware, frame.strLabwareID) = {}
            THEN Finish(Raised(LocalError("Labware not found in run information.")))
            ELSE Send(OffsetRequest(LastMatch(response.text.labware, frame.strLabwareID),
                                    frame.vector),
                      [op |-> "addLabwareOffsets"])
    /\ SessionUnchanged

addLabwareOffsets_response(response) ==
    /\ frame.op = "addLabwareOffsets"
    /\ CommandResponse("Failed to add offsets to labware.", response)

(***************************************************************************)
(* lights, controlAction                                                   *)
(***************************************************************************)
\* a Python value passed as an argument: a str or a bool
PyStr(s) == [type |-> "str", s |-> s]
PyBool(b) == [type |-> "bool", b |-> b]

\* str(value)
Str(value) ==
    IF value.type = "str" THEN value.s ELSE IF value.b THEN "True" ELSE "False"

\* s.lower(), on the strings the calls are made with
Lower(s) ==
    CASE s = "TRUE"  -> "true"
      [] s = "True"  -> "true"
      [] s = "FALSE" -> "false"
      [] s = "False" -> "false"
      [] s = "PAUSE" -> "pause"
      [] s = "Play"  -> "play"
      [] OTHER       -> s

\* variant: the state is sent without the membership check
lights_unvalidated(strState) ==
    /\ CanCall(1)
    /\ Send([method |-> "POST", url |-> RobotURL("lights"), query |-> "",
             data |-> [on |-> Lower(Str(strState))]],
            [op |-> "lights", strState |-> Lower(Str(strState))])
    /\ SessionUnchanged

lights(strState) ==
    /\ CanCall(1)
    /\ IF Lower(Str(strState)) \notin {"true", "false"}
       THEN Finish(Raised(LocalError("Invalid state: " \o Lower(Str(strState)))))
       ELSE Send([method |-> "POST", url |-> RobotURL("lights"), query |-> "",
                  data |-> [on |-> Lower(Str(strState))]],
                 [op |-> "lights", strState |-> Lower(Str(strState))])
    /\ SessionUnchanged

lights_response(response) ==
    /\ pc = "wait"
    /\ frame.op = "lights"
    /\ IF response.status_code = 200
       THEN Finish(Returned(None))
       ELSE Finish(Raised(HttpError("Failed to turn lights " \o frame.strState \o ".",
                                    response)))
    /\ SessionUnchanged

\* variant: the action is checked and sent as the caller wrote it
controlAction_caseSensitive(strAction) ==
    /\ CanCall(1)
    /\ IF strAction \notin {"pause", "play", "stop"}
       THEN Finish(Raised(LocalError("Invalid action: " \o strAction)))
       ELSE Send([method |-> "POST", url |-> RunScopedURL("/actions"), query |-> "",
                  data |-> [data |-> [actionType |-> strAction]]],
                 [op |-> "controlAction"])
    /\ SessionUnchanged

controlAction(strAction) ==
    /\ CanCall(1)
    /\ IF Lower(strAction) \notin {"pause", "play", "stop"}
       THEN Finish(Raised(LocalError("Invalid action: " \o Lower(strAction))))
       ELSE Send([method |-> "POST", url |-> RunScopedURL("/actions"), query |-> "",
                  data |-> [data |-> [actionType |-> Lower(strAction)]]],
                 [op |-> "controlAction"])
    /\ SessionUnchanged

\* variant: after an accepted action the run is fetched to confirm its state
controlAction_response_polls(response) ==
    /\ pc = "wait"
    /\ frame.op = "controlAction"
    /\ IF response.status_code = 201
       THEN IF nSent < MaxRequests
            THEN Send(RunInfoRequest, [op |-> "getRunInfo", via |-> "caller"])
            ELSE Finish(Returned(None))
       ELSE Finish(Raised(HttpError("Failed to perform action.", response)))
    /\ SessionUnchanged

controlAction_response(response) ==
    /\ frame.op = "controlAction"
    /\ CommandResponse("Failed to perform action.", response)

\* aliases a caller may pass: every alias a load can return, and a bare
\* labware name, which no load registers
LabwareArgs ==
    { LabwareIdentifier(n, sl) : n \in LabwareNames, sl \in Slots } \cup LabwareNames

OffsetVectors == { <<0, 0, 0>>, <<1, -2, 3>> }

LightsArgs == { PyStr("true"), PyStr("TRUE"), PyStr("false"), PyStr("maybe"),
                PyBool(TRUE), PyBool(FALSE) }

ActionArgs == { "pause", "PAUSE", "Play", "stop", "freeze" }

(***************************************************************************)
(* The script's own state.                                                 *)
(***************************************************************************)
\* the strID_... variables of the script, before any of them is assigned
ScriptVariables ==
    {"strID_pipetteTipRack", "strID_washStation", "strID_autodialCell",
     "strID_dIBeaker", "strID_vialRack", "strID_electrodeTipRack"}

NoIds == [v \in ScriptVariables |-> None]

\* no fillWell call is in progress
NoFill == [at |-> "none", intVolume |-> 0]

\* no tip is on the pipette
NoTip == [labware |-> None, well |-> None]

\* nothing issued yet: the volume fillWell was called with, the volumes its
\* aspirate and dispense commands add up to, the number of client calls it
\* made, the aspirated volume that is not dispensed yet, and the tip the
\* script's pickUpTip / dropTip commands leave on the pipette
NoHist ==
    [requested |-> 0, aspirated |-> 0, dispensed |-> 0, calls |-> 0,
     holding |-> FALSE, pending |-> 0, tip |-> NoTip, tips |-> 0]

(***************************************************************************)
(* Specification.                                                          *)
(***************************************************************************)
Init ==
    /\ line = 0
    /\ ids = NoIds
    /\ fill = NoFill
    /\ hist = NoHist
    /\ pc = "start"
    /\ robotIP = None
    /\ runID = None
    /\ commandURL = None
    /\ labware = EmptyDict
    /\ pipettes = EmptyDict
    /\ frame = NoFrame
    /\ wire = NoRequest
    /\ nSent = 0
    /\ outcome = NoOutcome

Next ==
    \/ \E ip \in RobotIPs : init(ip) /\ Free
    \/ \E r \in Responses : initalizeRun_response(r) /\ Free
    \/ getRunInfo /\ Free
    \/ \E intSlot \in Slots, strLabwareName \in LabwareNames,
          strNamespace \in Namespaces, intVersion \in Versions :
            loadLabware(intSlot, strLabwareName, strNamespace, intVersion, "setup") /\ Free
    \/ \E r \in Responses : loadLabware_response(r) /\ Free
    \/ \E dicLabware \in CustomLabware, intSlot \in Slots :
            loadCustomLabware(dicLabware, intSlot) /\ Free
    \/ \E r \in Responses : loadCustomLabware_response(r) /\ Free
    \/ \E strPipetteName \in PipetteNames, strMount \in Mounts :
            loadPipette(strPipetteName, strMount) /\ Free
    \/ \E r \in Responses : loadPipette_response(r) /\ Free
    \/ \E r \in Responses : getRunInfo_response(r) /\ Free
    \/ homeRobot /\ Free
    \/ \E r \in Responses : homeRobot_response(r) /\ Free
    \/ \E l \in LabwareArgs, p \in PipetteNames, w \in WellNames : pickUpTip(l, p, w) /\ Free
    \/ \E r \in Responses : pickUpTip_response(r) /\ Free
    \/ \E l \in LabwareArgs, p \in PipetteNames, w \in WellNames : dropTip(p, l, w) /\ Free
    \/ \E r \in Responses : dropTip_response(r) /\ Free
    \/ \E l \in LabwareArgs, p \in PipetteNames, w \in WellNames, v \in Volumes :
            aspirate(l, w, p, v) /\ Free
    \/ \E r \in Responses : aspirate_response(r) /\ Free
    \/ \E l \in LabwareArgs, p \in PipetteNames, w \in WellNames, v \in Volumes :
            dispense(l, w, p, v) /\ Free
    \/ \E r \in Responses : dispense_response(r) /\ Free
    \/ \E l \in LabwareArgs, p \in PipetteNames, w \in WellNames : blowout(l, w, p) /\ Free
    \/ \E r \in Responses : blowout_response(r) /\ Free
    \/ \E l \in LabwareArgs, p \in PipetteNames, w \in WellNames : moveToWell(l, w, p) /\ Free
    \/ \E r \in Responses : moveToWell_response(r) /\ Free
    \/ \E l \in LabwareArgs, v \in OffsetVectors : addLabwareOffsets(l, v) /\ Free
    \/ \E r \in Responses : addLabwareOffsets_response(r) /\ Free
    \/ \E st \in LightsArgs : lights(st) /\ Free
    \/ \E r \in Responses : lights_response(r) /\ Free
    \/ \E a \in ActionArgs : controlAction(a) /\ Free
    \/ \E r \in Responses : controlAction_response(r) /\ Free

Spec == Init /\ [][Next]_vars

\* the remote answers the outstanding request
Respond ==
    \/ \E r \in Responses : initalizeRun_response(r)
    \/ \E r \in Responses : getRunInfo_response(r)
    \/ \E r \in Responses : loadLabware_response(r)
    \/ \E r \in Responses : loadCustomLabware_response(r)
    \/ \E r \in Responses : loadPipette_response(r)
    \/ \E r \in Responses : homeRobot_response(r)
    \/ \E r \in Responses : pickUpTip_response(r)
    \/ \E r \in Responses : dropTip_response(r)
    \/ \E r \in Responses : aspirate_response(r)
    \/ \E r \in Responses : dispense_response(r)
    \/ \E r \in Responses : blowout_response(r)
    \/ \E r \in Responses : moveToWell_response(r)
    \/ \E r \in Responses : addLabwareOffsets_response(r)
    \/ \E r \in Responses : lights_response(r)
    \/ \E r \in Responses : controlAction_response(r)

\* the calls of a caller that works with one tip rack, one slot and one
\* pipette; the remote answers as in Next
FairNext ==
    \/ \E ip \in RobotIPs : init(ip) /\ Free
    \/ getRunInfo /\ Free
    \/ loadLabware(1, "opentrons_96_tiprack_1000ul", "opentrons", 1, "setup") /\ Free
    \/ \E dicLabware \in CustomLabware : loadCustomLabware(dicLabware, 1) /\ Free
    \/ loadPipette("p1000_single_gen2", "right") /\ Free
    \/ homeRobot /\ Free
    \/ \E l \in {"opentrons_96_tiprack_1000ul_1", "opentrons_96_tiprack_1000ul"} :
          \/ pickUpTip(l, "p1000_single_gen2", "A1") /\ Free
          \/ dropTip("p1000_single_gen2", l, "A1") /\ Free
          \/ aspirate(l, "A1", "p1000_single_gen2", 400) /\ Free
          \/ dispense(l, "A1", "p1000_single_gen2", 400) /\ Free
          \/ blowout(l, "A1", "p1000_single_gen2") /\ Free
          \/ moveToWell(l, "A1", "p1000_single_gen2") /\ Free
          \/ addLabwareOffsets(l, <<1, -2, 3>>) /\ Free
    \/ \E st \in {PyBool(TRUE), PyStr("maybe")} : lights(st) /\ Free
    \/ \E a \in {"PAUSE", "freeze"} : controlAction(a) /\ Free
    \/ Respond /\ Free

\* the session with a remote that answers every request it is sent
FairSpec == Init /\ [][FairNext]_vars /\ WF_vars(Respond /\ Free)

(***************************************************************************)
(* The run script (run_automatedCorrosion.py): a straight sequence of      *)
(* statements with no try/except around a client call, so an exception of  *)
(* a call ends the script.  fillWell and washElectrode are its helper      *)
(* functions.  Offsets and speeds of the calls are left out, as in the     *)
(* client's commands.                                                      *)
(***************************************************************************)
\* the largest volume fillWell moves with one aspirate
MaxTransfer == 1000

\* a labware definition read from labware/<strFile>.json; its loadName is
\* taken to be the file's name
Definition(strFile) ==
    [parameters |-> [loadName |-> strFile], namespace |-> "custom_beta", version |-> 1]

\* statements
Construct == [op |-> "opentronsClient", var |-> None]

LoadLabware(var, intSlot, strLabwareName) ==
    [op |-> "loadLabware", var |-> var, intSlot |-> intSlot,
     strLabwareName |-> strLabwareName]

LoadCustomLabware(var, strFile, intSlot) ==
    [op |-> "loadCustomLabware", var |-> var, dicLabware |-> Definition(strFile),
     intSlot |-> intSlot]

LoadPipette(strPipetteName, strMount) ==
    [op |-> "loadPipette", var |-> None, strPipetteName |-> strPipetteName,
     strMount |-> strMount]

Lights(strState) == [op |-> "lights", var |-> None, strState |-> strState]

HomeRobot == [op |-> "homeRobot", var |-> None]

MoveToWell(strLabwareName, strWellName) ==
    [op |-> "moveToWell", var |-> None, strLabwareName |-> strLabwareName,
     strWellName |-> strWellName, strPipetteName |-> "p1000_single_gen2"]

PickUpTip(strLabwareName, strWellName) ==
    [op |-> "pickUpTip", var |-> None, strLabwareName |-> strLabwareName,
     strWellName |-> strWellName, strPipetteName |-> "p1000_single_gen2"]

DropTip(strLabwareName, strWellName) ==
    [op |-> "dropTip", var |-> None, strLabwareName |-> strLabwareName,
     strWellName |-> strWellName, strPipetteName |-> "p1000_single_gen2"]

FillWell(strLabwareName_from, strWellName_from, strLabwareName_to, strWellName_to, intVolume) ==
    [op |-> "fillWell", var |-> None,
     strLabwareName_from |-> strLabwareName_from, strWellName_from |-> strWellName_from,
     strLabwareName_to |-> strLabwareName_to, strWellName_to |-> strWellName_to,
     strPipetteName |-> "p1000_single_gen2", intVolume |-> intVolume]

\* the electrochemical experiment: no call of the robot client
Experiment == [op |-> "experiment", var |-> None]

\* the statements of the script that call the robot client, in source order;
\* washElectrode is its two moveToWell calls
RunScript ==
    << Construct,
       LoadLabware("strID_pipetteTipRack", 1, "opentrons_96_tiprack_1000ul"),
       LoadCustomLabware("strID_washStation", "nis_2_wellplate_30000ul", 3),
       LoadCustomLabware("strID_autodialCell", "autodial_25_reservoir_4620ul", 4),
       LoadCustomLabware("strID_dIBeaker", "tlg_1_reservoir_50000ul", 5),
       LoadCustomLabware("strID_vialRack", "nis_8_reservoir_25000ul", 7),
       LoadCustomLabware("strID_electrodeTipRack", "nistall_4_tiprack_1ul", 10),
       LoadPipette("p1000_single_gen2", "right"),
       Lights(PyBool(TRUE)),
       HomeRobot,
       MoveToWell("strID_pipetteTipRack", "A1"),
       PickUpTip("strID_pipetteTipRack", "A1"),
       FillWell("strID_vialRack", "A1", "strID_autodialCell", "A2", 400),
       MoveToWell("strID_pipetteTipRack", "A1"),
       DropTip("strID_pipetteTipRack", "A1"),
       MoveToWell("strID_pipetteTipRack", "A12"),
       PickUpTip("strID_pipetteTipRack", "A12"),
       FillWell("strID_dIBeaker", "A1", "strID_autodialCell", "A2", 3600),
       MoveToWell("strID_pipetteTipRack", "A12"),
       DropTip("strID_pipetteTipRack", "A12"),
       MoveToWell("strID_electrodeTipRack", "A2"),
       PickUpTip("strID_electrodeTipRack", "A2"),
       MoveToWell("strID_autodialCell", "A2"),
       Experiment,
       MoveToWell("strID_washStation", "A2"),
       MoveToWell("strID_washStation", "A2"),
       MoveToWell("strID_electrodeTipRack", "A2"),
       DropTip("strID_electrodeTipRack", "A2"),
       HomeRobot,
       Lights(PyBool(FALSE)) >>

\* variant: a failed call is caught and the script goes on with its statement
CanRun_afterFailure(program, op) ==
    /\ line \in 1..Len(program)
    /\ program[line].op = op

\* the statement at `line` is reached: no statement before it has raised
CanRun(program, op) ==
    /\ line \in 1..Len(program)
    /\ program[line].op = op
    /\ outcome.status # "raised"

\* the call has put its command on the wire
Issued == pc' = "wait"

script_construct(program) ==
    /\ CanRun(program, "opentronsClient")
    /\ \E ip \in RobotIPs : init(ip)
    /\ UNCHANGED <<line, ids, fill, hist>>

script_loadLabware(program) ==
    /\ CanRun(program, "loadLabware")
    /\ loadLabware(program[line].intSlot, program[line].strLabwareName, "opentrons", 1,
                   "setup")
    /\ UNCHANGED <<line, ids, fill, hist>>

script_loadCustomLabware(program) ==
    /\ CanRun(program, "loadCustomLabware")
    /\ loadCustomLabware(program[line].dicLabware, program[line].intSlot)
    /\ UNCHANGED <<line, ids, fill, hist>>

script_loadPipette(program) ==
    /\ CanRun(program, "loadPipette")
    /\ loadPipette(program[line].strPipetteName, program[line].strMount)
    /\ UNCHANGED <<line, ids, fill, hist>>

script_lights(program) ==
    /\ CanRun(program, "lights")
    /\ lights(program[line].strState)
    /\ UNCHANGED <<line, ids, fill, hist>>

script_homeRobot(program) ==
    /\ CanRun(program, "homeRobot")
    /\ homeRobot
    /\ UNCHANGED <<line, ids, fill, hist>>

\* variant: the labware is named by the script's variable, not by the alias
\* the load returned
script_moveToWell_byVariableName(program) ==
    /\ CanRun(program, "moveToWell")
    /\ moveToWell(program[line].strLabwareName, program[line].strWellName,
                  program[line].strPipetteName)
    /\ UNCHANGED <<line, ids, fill, hist>>

script_moveToWell(program) ==
    /\ CanRun(program, "moveToWell")
    /\ moveToWell(ids[program[line].strLabwareName], program[line].strWellName,
                  program[line].strPipetteName)
    /\ UNCHANGED <<line, ids, fill, hist>>

script_pickUpTip(program) ==
    /\ CanRun(program, "pickUpTip")
    /\ pickUpTip(ids[program[line].strLabwareName], program[line].strPipetteName,
                 program[line].strWellName)
    /\ hist' = IF Issued
               THEN [hist EXCEPT !.tip = [labware |-> ids[program[line].strLabwareName],
                                          well |-> program[line].strWellName],
                                 !.tips = @ + 1]
               ELSE hist
    /\ UNCHANGED <<line, ids, fill>>

\* variant: the tip is dropped into the first well of the rack
script_dropTip_intoFirstWell(program) ==
    /\ CanRun(program, "dropTip")
    /\ dropTip(program[line].strPipetteName, ids[program[line].strLabwareName], "A1")
    /\ hist' = IF Issued THEN [hist EXCEPT !.tip = NoTip] ELSE hist
    /\ UNCHANGED <<line, ids, fill>>

script_dropTip(program) ==
    /\ CanRun(program, "dropTip")
    /\ dropTip(program[line].strPipetteName, ids[program[line].strLabwareName],
               program[line].strWellName)
    /\ hist' = IF Issued THEN [hist EXCEPT !.tip = NoTip] ELSE hist
    /\ UNCHANGED <<line, ids, fill>>

script_experiment(program) ==
    /\ CanRun(program, "experiment")
    /\ pc = "ready"
    /\ line' = line + 1
    /\ UNCHANGED <<pc, robotIP, runID, commandURL, labware, pipettes, frame, wire, nSent,
                   outcome, ids, fill, hist>>

(***************************************************************************)
(* fillWell.  `fill.at` is the call that runs or comes next; "while" is    *)
(* the loop test, taken together with the call that follows it.            *)
(***************************************************************************)
\* variant: no loop, the volume is transferred at once
LoopTest_never(intVolume) == FALSE

\* variant: the loop goes on while a whole chunk or more is left
LoopTest_atLeast(intVolume) == intVolume >= MaxTransfer

\* while intVolume > 1000
LoopTest(intVolume) == intVolume > MaxTransfer

\* variant: the dispense follows the aspirate without the move to the
\* destination
NextAt_withoutMoveToDestination(at) ==
    CASE at = "loop_moveToWell_from" -> "loop_aspirate"
      [] at = "loop_aspirate"        -> "loop_dispense"
      [] at = "rest_moveToWell_from" -> "rest_aspirate"
      [] at = "rest_aspirate"        -> "rest_dispense"

\* the call after the one at `at` has returned
NextAt(at) ==
    CASE at = "loop_moveToWell_from" -> "loop_aspirate"
      [] at = "loop_aspirate"        -> "loop_moveToWell_to"
      [] at = "loop_moveToWell_to"   -> "loop_dispense"
      [] at = "loop_dispense"        -> "while"
      [] at = "rest_moveToWell_from" -> "rest_aspirate"
      [] at = "rest_aspirate"        -> "rest_moveToWell_to"
      [] at = "rest_moveToWell_to"   -> "rest_dispense"
      [] at = "rest_dispense"        -> "none"

\* intVolume = 1000 in the loop, intVolume = intVolume after it
TransferVolume(at, intVolume) ==
    IF at \in {"loop_aspirate", "loop_dispense"} THEN MaxTransfer ELSE intVolume

script_fillWell(program) ==
    LET st       == program[line]
        entering == fill = NoFill
        v        == IF entering THEN st.intVolume ELSE fill.intVolume
        at       == IF entering \/ fill.at = "while"
                    THEN IF LoopTest(v) THEN "loop_moveToWell_from"
                                        ELSE "rest_moveToWell_from"
                    ELSE fill.at
        h        == IF entering
                    THEN [hist EXCEPT !.requested = v, !.aspirated = 0, !.dispensed = 0,
                                      !.calls = 0, !.holding = FALSE, !.pending = 0]
                    ELSE hist
        vol      == TransferVolume(at, v)
    IN  /\ CanRun(program, "fillWell")
        /\ CASE at \in {"loop_moveToWell_from", "rest_moveToWell_from"} ->
                  /\ moveToWell(ids[st.strLabwareName_from], st.strWellName_from,
                                st.strPipetteName)
                  /\ hist' = IF Issued THEN [h EXCEPT !.calls = @ + 1] ELSE h
             [] at \in {"loop_aspirate", "rest_aspirate"} ->
                  /\ aspirate(ids[st.strLabwareName_from], st.strWellName_from,
                              st.strPipetteName, vol)
                  /\ hist' = IF Issued
                             THEN [h EXCEPT !.calls = @ + 1, !.aspirated = @ + vol,
                                            !.holding = TRUE, !.pending = vol]
                             ELSE h
             [] at \in {"loop_moveToWell_to", "rest_moveToWell_to"} ->
                  /\ moveToWell(ids[st.strLabwareName_to], st.strWellName_to,
                                st.strPipetteName)
                  /\ hist' = IF Issued THEN [h EXCEPT !.calls = @ + 1] ELSE h
             [] at \in {"loop_dispense", "rest_dispense"} ->
                  /\ dispense(ids[st.strLabwareName_to], st.strWellName_to,
                              st.strPipetteName, vol)
                  /\ hist' = IF Issued
                             THEN [h EXCEPT !.calls = @ + 1, !.dispensed = @ + vol,
                                            !.holding = FALSE, !.pending = 0]
                             ELSE h
        /\ fill' = [at |-> at, intVolume |-> v]
        /\ UNCHANGED <<line, ids>>

\* the call of the statement at `line` has been answered: when it returned,
\* its value is assigned, and the script (or fillWell) is at its next call
ScriptAdvance(program) ==
    /\ IF pc' = "ready" /\ outcome'.status = "returned"
       THEN IF program[line].op = "fillWell"
            THEN /\ CASE fill.at = "loop_dispense" ->
                           /\ fill' = [at |-> "while",
                                       intVolume |-> fill.intVolume - MaxTransfer]
                           /\ UNCHANGED line
                      [] fill.at = "rest_dispense" ->
                           /\ fill' = NoFill
                           /\ line' = line + 1
                      [] OTHER ->
                           /\ fill' = [fill EXCEPT !.at = NextAt(fill.at)]
                           /\ UNCHANGED line
                 /\ UNCHANGED ids
            ELSE /\ line' = line + 1
                 /\ ids' = IF program[line].var # None
                           THEN [ids EXCEPT ![program[line].var] = outcome'.value]
                           ELSE ids
                 /\ UNCHANGED fill
       ELSE UNCHANGED <<line, ids, fill>>
    /\ UNCHANGED hist

\* the session before the script's first statement
ScriptInit ==
    /\ line = 1
    /\ ids = NoIds
    /\ fill = NoFill
    /\ hist = NoHist
    /\ pc = "start"
    /\ robotIP = None
    /\ runID = None
    /\ commandURL = None
    /\ labware = EmptyDict
    /\ pipettes = EmptyDict
    /\ frame = NoFrame
    /\ wire = NoRequest
    /\ nSent = 0
    /\ outcome = NoOutcome

RunNext ==
    \/ script_construct(RunScript)
    \/ script_loadLabware(RunScript)
    \/ script_loadCustomLabware(RunScript)
    \/ script_loadPipette(RunScript)
    \/ script_lights(RunScript)
    \/ script_homeRobot(RunScript)
    \/ script_moveToWell(RunScript)
    \/ script_pickUpTip(RunScript)
    \/ script_dropTip(RunScript)
    \/ script_fillWell(RunScript)
    \/ script_experiment(RunScript)
    \/ \E r \in Responses : initalizeRun_response(r) /\ ScriptAdvance(RunScript)
    \/ \E r \in Responses : loadLabware_response(r) /\ ScriptAdvance(RunScript)
    \/ \E r \in Responses : loadCustomLabware_response(r) /\ ScriptAdvance(RunScript)
    \/ \E r \in Responses : loadPipette_response(r) /\ ScriptAdvance(RunScript)
    \/ \E r \in Responses : lights_response(r) /\ ScriptAdvance(RunScript)
    \/ \E r \in Responses : homeRobot_response(r) /\ ScriptAdvance(RunScript)
    \/ \E r \in Responses : moveToWell_response(r) /\ ScriptAdvance(RunScript)
    \/ \E r \in Responses : pickUpTip_response(r) /\ ScriptAdvance(RunScript)
    \/ \E r \in Responses : dropTip_response(r) /\ ScriptAdvance(RunScript)
    \/ \E r \in Responses : aspirate_response(r) /\ ScriptAdvance(RunScript)
    \/ \E r \in Responses : dispense_response(r) /\ ScriptAdvance(RunScript)

\* the run of the script
RunSpec == ScriptInit /\ [][RunNext]_vars

(***************************************************************************)
(* fillWell called with any volume: the script's statements up to the      *)
(* pipette, with the two labware fillWell works on, and then fillWell.     *)
(***************************************************************************)
\* the largest number of whole 1000 uL chunks in a volume fillWell is given
MaxChunks == 3

\* volumes around every multiple of 1000 up to MaxChunks chunks, the
\* script's 400 and 3600 among them
FillVolumes ==
    { MaxTransfer * k + d : k \in 0..MaxChunks, d \in {-1, 0, 1, 400, 600} }
        \cup {-MaxTransfer}

FillProgram(intVolume) ==
    << Construct,
       LoadCustomLabware("strID_autodialCell", "autodial_25_reservoir_4620ul", 4),
       LoadCustomLabware("strID_vialRack", "nis_8_reservoir_25000ul", 7),
       LoadPipette("p1000_single_gen2", "right"),
       FillWell("strID_vialRack", "A1", "strID_autodialCell", "A2", intVolume) >>

FillNext ==
    \E intVolume \in FillVolumes :
        \/ script_construct(FillProgram(intVolume))
        \/ script_loadCustomLabware(FillProgram(intVolume))
        \/ script_loadPipette(FillProgram(intVolume))
        \/ script_fillWell(FillProgram(intVolume))
        \/ \E r \in Responses :
              initalizeRun_response(r) /\ ScriptAdvance(FillProgram(intVolume))
        \/ \E r \in Responses :
              loadLabware_response(r) /\ ScriptAdvance(FillProgram(intVolume))
        \/ \E r \in Responses :
              loadCustomLabware_response(r) /\ ScriptAdvance(FillProgram(intVolume))
        \/ \E r \in Responses :
              loadPipette_response(r) /\ ScriptAdvance(FillProgram(intVolume))
        \/ \E r \in Responses :
              moveToWell_response(r) /\ ScriptAdvance(FillProgram(intVolume))
        \/ \E r \in Responses :
              aspirate_response(r) /\ ScriptAdvance(FillProgram(intVolume))
        \/ \E r \in Responses :
              dispense_response(r) /\ ScriptAdvance(FillProgram(intVolume))

\* fillWell on a loaded deck
FillSpec == ScriptInit /\ [][FillNext]_vars

\* the interpreter goes on with the next statement and every request is
\* answered
FillFairSpec == ScriptInit /\ [][FillNext]_vars /\ WF_vars(FillNext)

(***************************************************************************)
(* Properties.                                                             *)
(***************************************************************************)
\* the commands that are submitted to the command URL
CommandOps ==
    {"loadLabware", "loadPipette", "pickUpTip", "dropTip", "aspirate", "dispense",
     "blowout", "moveToWell"}

\* a step in which the blocked method receives this answer
AnyResponse(r) ==
    \/ initalizeRun_response(r)
    \/ getRunInfo_response(r)
    \/ loadLabware_response(r)
    \/ loadCustomLabware_response(r)
    \/ loadPipette_response(r)
    \/ homeRobot_response(r)
    \/ pickUpTip_response(r)
    \/ dropTip_response(r)
    \/ aspirate_response(r)
    \/ dispense_response(r)
    \/ blowout_response(r)
    \/ moveToWell_response(r)
    \/ addLabwareOffsets_response(r)
    \/ lights_response(r)
    \/ controlAction_response(r)

\* the six liquid-handling and motion commands
MotionOps == {"pickUpTip", "dropTip", "aspirate", "dispense", "blowout", "moveToWell"}

\* C1: a pickUpTip, dropTip, aspirate, dispense, blowout or moveToWell call
\* whose labware alias or pipette alias is not a key of its registry fails
\* locally and emits no request: a request of these six methods is only ever
\* on the wire for a call whose two aliases are registered, and a call that
\* ends without blocking has raised with nothing sent (a KeyError carries a
\* key that is in neither registry).
C1_UnknownAliasFailsLocally ==
    /\ []((pc = "wait" /\ frame.op \in MotionOps)
            => /\ frame.strLabwareName \in DOMAIN labware
               /\ frame.strPipetteName \in DOMAIN pipettes)
    /\ [][(pc = "ready" /\ pc' = "ready")
            => /\ nSent' = nSent
               /\ wire' = NoRequest
               /\ outcome'.status = "raised"
               /\ outcome'.error.kind = "KeyError"
                    => outcome'.error.key \notin (DOMAIN labware \cup DOMAIN pipettes)]_vars

\* a call failed on the pipette alias while labware is registered
C1_Witness ==
    /\ pc = "ready"
    /\ outcome.status = "raised"
    /\ outcome.error.kind = "KeyError"
    /\ outcome.error.key \in PipetteNames
    /\ labware # EmptyDict
    /\ nSent = 2

\* C2: a create-run answer of 201 with run id R completes construction with
\* runID = R and commandURL = "http://<robotIP>:31950/runs/R/commands", and
\* every command submission is a POST to the URL built from the session's
\* robotIP and runID in that way.
C2_CommandURLDerivedFromRunID ==
    /\ [][\A r \in Responses :
            (initalizeRun_response(r) /\ r.status_code = 201 /\ r.text.id # Missing)
            => /\ pc' = "ready"
               /\ outcome'.status = "returned"
               /\ runID' = r.text.id
               /\ commandURL' = "http://" \o robotIP \o ":31950/runs/" \o r.text.id
                                    \o "/commands"]_vars
    /\ []((pc = "wait" /\ frame.op \in CommandOps)
            => /\ wire.method = "POST"
               /\ wire.url = "http://" \o robotIP \o ":31950/runs/" \o runID \o "/commands"
               /\ runID \in { b.id : b \in Bodies } \ {Missing})

\* an aspirate command is on the wire in a session whose run id is run-b
C2_Witness ==
    /\ pc = "wait"
    /\ frame.op = "aspirate"
    /\ runID = "run-b"
    /\ wire.url = "http://100.67.86.197:31950/runs/run-b/commands"

\* C3: a create-run answer other than 201 makes construction raise an error
\* that carries the status and the body; runID and commandURL stay unset and
\* the session emits no further request.
C3_FailedCreationLeavesNoSession ==
    /\ [][\A r \in Responses :
            (initalizeRun_response(r) /\ r.status_code # 201)
            => /\ pc' = "failed"
               /\ outcome'.status = "raised"
               /\ outcome'.error.code = r.status_code
               /\ outcome'.error.text = r.text]_vars
    /\ [](pc = "failed" => runID = None /\ commandURL = None /\ wire = NoRequest /\ nSent = 1)
    /\ [][pc = "failed" => pc' = "failed"]_vars

\* construction failed on a 500 answer with a non-empty body
C3_Witness ==
    /\ pc = "failed"
    /\ outcome.error.code = 500
    /\ outcome.error.text # EmptyText
    /\ runID = None

\* C4: runID and commandURL are assigned by the construction only; no step of
\* any later operation, successful or not, changes them.
C4_RunIDAssignedOnce ==
    [][(pc # "start" /\ frame.op # "_initalizeRun")
        => (runID' = runID /\ commandURL' = commandURL)]_vars

\* a constructed session after several operations, the last one of which failed
C4_Witness ==
    /\ pc = "ready"
    /\ runID # None
    /\ nSent >= 3
    /\ labware # EmptyDict
    /\ outcome.status = "raised"

\* C5: a loadLabware of name N into slot S answered 201 with labware id L
\* returns N + "_" + str(S) and leaves that alias mapped to id L and slot S.
C5_LoadLabwareRegistersAlias ==
    [][\A r \in Responses :
          (loadLabware_response(r) /\ r.status_code = 201 /\ r.text.labwareId # Missing)
          => LET alias == frame.strLabwareName \o "_" \o ToString(frame.intSlot)
             IN  /\ outcome'.status = "returned"
                 /\ outcome'.value = alias
                 /\ alias \in DOMAIN labware'
                 /\ labware'[alias] = [id |-> r.text.labwareId, slot |-> frame.intSlot]]_vars

\* the tip rack was loaded into slot 10 and the remote called it lw-2
C5_Witness ==
    /\ pc = "ready"
    /\ outcome.status = "returned"
    /\ outcome.value = "opentrons_96_tiprack_1000ul_10"
    /\ "opentrons_96_tiprack_1000ul_10" \in DOMAIN labware
    /\ labware["opentrons_96_tiprack_1000ul_10"] = [id |-> "lw-2", slot |-> 10]

\* the status a request's endpoint is documented to answer with
ExpectedStatus(request) ==
    IF request.method = "GET" THEN 200
    ELSE IF request.url \in {RobotURL("home"), RobotURL("lights")} THEN 200
    ELSE 201

\* C6: an answer whose status is not the expected one of the endpoint makes
\* the operation raise an error carrying that status and that body.
C6_UnexpectedStatusRaises ==
    [][\A r \in Responses :
          (pc = "wait" /\ AnyResponse(r) /\ r.status_code # ExpectedStatus(wire))
          => /\ pc' \in {"ready", "failed"}
             /\ outcome'.status = "raised"
             /\ outcome'.error.code = r.status_code
             /\ outcome'.error.text = r.text]_vars

\* homeRobot was answered 201, which is not the 200 it expects
C6_Witness ==
    /\ pc = "ready"
    /\ outcome.status = "raised"
    /\ outcome.error.kind = "Failed to home the robot."
    /\ outcome.error.code = 201
    /\ outcome.error.text # EmptyText

\* C7: an operation that raises leaves both registries as they were when it
\* was called: the step that raises does not change them, and neither does
\* any step that emits a request (the steps of a call before its last one).
C7_RaiseLeavesRegistries ==
    [][(outcome'.status = "raised" \/ pc' = "wait")
        => (labware' = labware /\ pipettes' = pipettes)]_vars

\* a load command was refused while both registries hold entries
C7_Witness ==
    /\ pc = "ready"
    /\ outcome.status = "raised"
    /\ outcome.error.kind = "Failed to load labware."
    /\ outcome.error.code = 500
    /\ labware # EmptyDict
    /\ pipettes # EmptyDict

\* C8 as stated: every successful loadLabware adds one entry to the registry.
C8_EveryLoadAddsOneEntry ==
    [][\A r \in Responses :
          (loadLabware_response(r) /\ r.status_code = 201 /\ r.text.labwareId # Missing)
          => Cardinality(DOMAIN labware') = Cardinality(DOMAIN labware) + 1]_vars

\* C8 amended: a successful loadLabware adds exactly one entry when its alias
\* was not registered; when the alias was registered the number of entries
\* stays and the entry is replaced by the new remote id and slot.
C8_LoadAddsOrReplacesOneEntry ==
    [][\A r \in Responses :
          (loadLabware_response(r) /\ r.status_code = 201 /\ r.text.labwareId # Missing)
          => LET alias == LabwareIdentifier(frame.strLabwareName, frame.intSlot)
             IN  /\ DOMAIN labware' = DOMAIN labware \cup {alias}
                 /\ Cardinality(DOMAIN labware') =
                        Cardinality(DOMAIN labware) + (IF alias \in DOMAIN labware THEN 0 ELSE 1)
                 /\ labware'[alias] = [id |-> r.text.labwareId, slot |-> frame.intSlot]
                 /\ \A k \in DOMAIN labware \ {alias} : labware'[k] = labware[k]]_vars

\* a loadLabware command is on the wire for an alias that is registered already
C8_Witness ==
    /\ pc = "wait"
    /\ frame.op = "loadLabware"
    /\ LabwareIdentifier(frame.strLabwareName, frame.intSlot) \in DOMAIN labware
    /\ labware[LabwareIdentifier(frame.strLabwareName, frame.intSlot)].id = "lw-1"

\* C9: no step removes a key from the labware registry or from the pipette
\* registry.
C9_AliasesNeverRemoved ==
    [][/\ DOMAIN labware \subseteq DOMAIN labware'
       /\ DOMAIN pipettes \subseteq DOMAIN pipettes']_vars

\* two labware aliases and a pipette are registered
C9_Witness ==
    /\ Cardinality(DOMAIN labware) >= 2
    /\ DOMAIN pipettes # {}

\* C10: a successful loadPipette of P on mount M answered with id I leaves P
\* mapped to (I, M) and every other entry as it was; a second load of P keeps
\* one entry for P, holding the id and mount of the second load.
C10_LoadPipetteOverwrites ==
    [][\A r \in Responses :
          (loadPipette_response(r) /\ r.status_code = 201 /\ r.text.pipetteId # Missing)
          => /\ DOMAIN pipettes' = DOMAIN pipettes \cup {frame.strPipetteName}
             /\ pipettes'[frame.strPipetteName] =
                    [id |-> r.text.pipetteId, mount |-> frame.strMount]
             /\ \A q \in DOMAIN pipettes \ {frame.strPipetteName} :
                    pipettes'[q] = pipettes[q]]_vars

\* a loadPipette command is on the wire for a pipette name that is registered
\* on the other mount
C10_Witness ==
    /\ pc = "wait"
    /\ frame.op = "loadPipette"
    /\ frame.strPipetteName \in DOMAIN pipettes
    /\ pipettes[frame.strPipetteName].mount # frame.strMount
    /\ pipettes[frame.strPipetteName].id = "pip-1"

InnerLoadLabware(p, f) ==
    p = "wait" /\ f.op = "loadLabware" /\ f.via = "loadCustomLabware"

\* C12: loadCustomLabware first posts the definition to labware_definitions;
\* its loadLabware command is submitted only by the step that receives 201
\* for that post; any other answer makes the call raise with no further
\* request and the registry as it was; the registry changes in a
\* loadCustomLabware call only when the loadLabware command is answered 201
\* too, and the call then returns the alias it registered.
C12_DefinitionBeforeLoad ==
    /\ []((pc = "wait" /\ frame.op = "loadCustomLabware")
            => /\ wire.method = "POST"
               /\ wire.url = "http://" \o robotIP \o ":31950/runs/" \o runID
                                 \o "/labware_definitions"
               /\ wire.data.data = frame.dicLabware)
    /\ [][\A r \in Responses :
            loadCustomLabware_response(r)
            => /\ labware' = labware
               /\ IF r.status_code = 201
                  THEN /\ InnerLoadLabware(pc', frame')
                       /\ wire'.url = commandURL
                       /\ wire'.data.commandType = "loadLabware"
                       /\ nSent' = nSent + 1
                  ELSE /\ pc' = "ready"
                       /\ outcome'.status = "raised"
                       /\ outcome'.error.kind = "Failed to load custom labware."
                       /\ wire' = NoRequest
                       /\ nSent' = nSent]_vars
    /\ [][(InnerLoadLabware(pc', frame') /\ ~InnerLoadLabware(pc, frame))
            => /\ pc = "wait"
               /\ frame.op = "loadCustomLabware"
               /\ \E r \in Responses : r.status_code = 201 /\ loadCustomLabware_response(r)]_vars
    /\ [][\A r \in Responses :
            (InnerLoadLabware(pc, frame) /\ loadLabware_response(r))
            => IF r.status_code = 201 /\ r.text.labwareId # Missing
               THEN /\ outcome'.status = "returned"
                    /\ outcome'.value \in DOMAIN labware'
                    /\ labware'[outcome'.value].id = r.text.labwareId
               ELSE /\ outcome'.status = "raised"
                    /\ labware' = labware]_vars

\* the definition post of a loadCustomLabware call was refused while the
\* registry holds an entry
C12_Witness ==
    /\ pc = "ready"
    /\ outcome.status = "raised"
    /\ outcome.error.kind = "Failed to load custom labware."
    /\ outcome.error.code = 200
    /\ labware # EmptyDict

FailsLocally ==
    /\ pc' = "ready"
    /\ nSent' = nSent
    /\ wire' = NoRequest
    /\ outcome'.status = "raised"
    /\ outcome'.error.code = 0

\* the payload state the calls of the claim are to send
C14_ExpectedOn(st) ==
    CASE st \in {PyStr("TRUE"), PyBool(TRUE), PyStr("true")} -> "true"
      [] st \in {PyStr("false"), PyBool(FALSE)}              -> "false"
      [] OTHER                                               -> "invalid"

\* C14: lights emits a request exactly when the lower-cased str() of its
\* argument is "true" or "false", a POST to /robot/lights whose payload is
\* {"on": that string}; lights("TRUE"), lights(True) and lights("true") all
\* send {"on": "true"}, lights("false") and lights(False) send
\* {"on": "false"}, and lights("maybe") raises with nothing sent.
C14_LightsStateNormalised ==
    /\ [][\A st \in LightsArgs :
            lights(st)
            => /\ Lower(Str(st)) \in {"true", "false"} <=> pc' = "wait"
               /\ C14_ExpectedOn(st) # "invalid" <=> pc' = "wait"
               /\ IF pc' = "wait"
                  THEN /\ nSent' = nSent + 1
                       /\ wire'.method = "POST"
                       /\ wire'.url = "http://" \o robotIP \o ":31950/robot/lights"
                       /\ wire'.data = [on |-> Lower(Str(st))]
                       /\ wire'.data = [on |-> C14_ExpectedOn(st)]
                  ELSE /\ FailsLocally
                       /\ st = PyStr("maybe")
                       /\ outcome'.error.kind = "Invalid state: maybe"]_vars
    /\ []((pc = "wait" /\ frame.op = "lights") => wire.data.on \in {"true", "false"})

\* lights("maybe") was refused locally in a session that has sent a request
\* after its run was created
C14_Witness ==
    /\ pc = "ready"
    /\ outcome.status = "raised"
    /\ outcome.error.kind = "Invalid state: maybe"
    /\ nSent >= 2

\* the action type the calls of the claim are to send
C15_ExpectedAction(a) ==
    CASE a \in {"pause", "PAUSE"} -> "pause"
      [] a = "Play"               -> "play"
      [] a = "stop"               -> "stop"
      [] OTHER                    -> "invalid"

\* C15: controlAction emits a request exactly when the lower-cased action is
\* "pause", "play" or "stop", a POST to /runs/{runID}/actions whose payload is
\* {"data": {"actionType": the lower-cased action}}; "PAUSE" is sent as
\* "pause", and "freeze" raises with nothing sent.
C15_ControlActionNormalised ==
    /\ [][\A a \in ActionArgs :
            controlAction(a)
            => /\ Lower(a) \in {"pause", "play", "stop"} <=> pc' = "wait"
               /\ C15_ExpectedAction(a) # "invalid" <=> pc' = "wait"
               /\ IF pc' = "wait"
                  THEN /\ nSent' = nSent + 1
                       /\ wire'.method = "POST"
                       /\ wire'.url = "http://" \o robotIP \o ":31950/runs/" \o runID
                                          \o "/actions"
                       /\ wire'.data = [data |-> [actionType |-> Lower(a)]]
                       /\ wire'.data = [data |-> [actionType |-> C15_ExpectedAction(a)]]
                  ELSE /\ FailsLocally
                       /\ a = "freeze"
                       /\ outcome'.error.kind = "Invalid action: freeze"]_vars
    /\ []((pc = "wait" /\ frame.op = "controlAction")
            => wire.data.data.actionType \in {"pause", "play", "stop"})

\* controlAction("freeze") was refused locally after other requests were sent
C15_Witness ==
    /\ pc = "ready"
    /\ outcome.status = "raised"
    /\ outcome.error.kind = "Invalid action: freeze"
    /\ nSent >= 2

\* addLabwareOffsets is blocked in its getRunInfo call
InOffsetsRunInfo == pc = "wait" /\ frame.op = "getRunInfo" /\ frame.via = "addLabwareOffsets"

\* C16: when the run info that answers the GET of addLabwareOffsets lists no
\* labware entry with the remote id registered for the alias, the call raises
\* "Labware not found in run information." and posts nothing; nothing is
\* posted to labware_offsets either when the alias is not registered (the
\* call raises before the GET), when the GET is answered with a status other
\* than 200, or when the answer holds no labware list: a labware_offsets POST
\* only follows a 200 answer that lists an entry with the registered id.
C16_NoOffsetsWithoutMatch ==
    /\ [](InOffsetsRunInfo
            => frame.strLabwareID \in { labware[a].id : a \in DOMAIN labware })
    /\ [][\A l \in LabwareArgs, v \in OffsetVectors :
            (addLabwareOffsets(l, v) /\ l \notin DOMAIN labware)
            => (FailsLocally /\ outcome'.error.kind = "KeyError")]_vars
    /\ [][\A r \in Responses :
            (InOffsetsRunInfo /\ getRunInfo_response(r))
            => /\ (r.status_code = 200 /\ r.text.hasLabware
                     /\ \A i \in 1..Len(r.text.labware) :
                           r.text.labware[i].id # frame.strLabwareID)
                  => /\ FailsLocally
                     /\ outcome'.error.kind = "Labware not found in run information."
               /\ r.status_code # 200
                  => /\ pc' = "ready" /\ nSent' = nSent /\ wire' = NoRequest
                     /\ outcome'.status = "raised"
                     /\ outcome'.error.kind = "Failed to get run information."
               /\ (r.status_code = 200 /\ ~r.text.hasLabware)
                  => FailsLocally]_vars
    /\ [][(pc' = "wait" /\ frame'.op = "addLabwareOffsets")
            => /\ InOffsetsRunInfo
               /\ \E r \in Responses :
                     /\ r.status_code = 200
                     /\ \E i \in 1..Len(r.text.labware) :
                           r.text.labware[i].id = frame.strLabwareID
                     /\ getRunInfo_response(r)]_vars
    /\ []((pc = "wait" /\ wire.method = "POST"
              /\ wire.url = "http://" \o robotIP \o ":31950/runs/" \o runID
                                \o "/labware_offsets")
            => frame.op = "addLabwareOffsets")

\* addLabwareOffsets for a registered alias ended with "labware not found":
\* the run info listed entries, none of them with the alias's id
C16_Witness ==
    /\ pc = "ready"
    /\ outcome.status = "raised"
    /\ outcome.error.kind = "Labware not found in run information."
    /\ labware # EmptyDict
    /\ nSent = 3

\* C17: the labware_offsets POST of addLabwareOffsets is emitted by the step
\* that receives the answer to the run-info GET; it carries the definitionUri
\* and the slotName of the run-info labware entry whose id is the alias's
\* registered remote id (of the last such entry, should the list hold several)
\* and the caller's x, y and z as strings.
C17_OffsetsFromRunInfoEntry ==
    /\ [][(pc' = "wait" /\ frame'.op = "addLabwareOffsets")
            => /\ InOffsetsRunInfo
               /\ wire.method = "GET"
               /\ wire.url = "http://" \o robotIP \o ":31950/runs/" \o runID
               /\ nSent' = nSent + 1]_vars
    /\ [][\A r \in Responses :
            (InOffsetsRunInfo /\ getRunInfo_response(r) /\ pc' = "wait")
            => LET lst == r.text.labware
                   M   == { i \in 1..Len(lst) : lst[i].id = frame.strLabwareID }
               IN  /\ M # {}
                   /\ \E i \in M :
                         /\ \A j \in M : j <= i
                         /\ wire'.data.data.definitionUri = lst[i].definitionUri
                         /\ wire'.data.data.location = [slotName |-> lst[i].slotName]
                   /\ wire'.data.data.vector = [x |-> ToString(frame.vector[1]),
                                                 y |-> ToString(frame.vector[2]),
                                                 z |-> ToString(frame.vector[3])]
                   /\ wire'.method = "POST"
                   /\ wire'.url = "http://" \o robotIP \o ":31950/runs/" \o runID
                                      \o "/labware_offsets"]_vars

\* offsets are on the wire for slot "1" of the run info while every entry of
\* the local registry is in slot 10
C17_Witness ==
    /\ pc = "wait"
    /\ frame.op = "addLabwareOffsets"
    /\ wire.data.data.location.slotName = "1"
    /\ wire.data.data.vector = [x |-> "1", y |-> "-2", z |-> "3"]
    /\ labware # EmptyDict
    /\ \A a \in DOMAIN labware : labware[a].slot = 10

\* the methods that load nothing
NonLoadingOps ==
    {"getRunInfo", "homeRobot", "pickUpTip", "dropTip", "aspirate", "dispense",
     "blowout", "moveToWell", "addLabwareOffsets", "lights", "controlAction"}

\* C18: the labware registry is changed only by the step in which a
\* loadLabware command (of loadLabware or of loadCustomLabware) is answered,
\* and that step leaves the pipette registry alone; the pipette registry is
\* changed only by the step in which a loadPipette command is answered, and
\* that step leaves the labware registry alone; no step of getRunInfo,
\* homeRobot, pickUpTip, dropTip, aspirate, dispense, blowout, moveToWell,
\* addLabwareOffsets, lights or controlAction changes either of them.
C18_OnlyLoadsChangeRegistries ==
    [][/\ labware' # labware
          => (pc = "wait" /\ frame.op = "loadLabware" /\ pipettes' = pipettes)
       /\ pipettes' # pipettes
          => (pc = "wait" /\ frame.op = "loadPipette" /\ labware' = labware)
       /\ (frame.op \in NonLoadingOps \/ frame'.op \in NonLoadingOps)
          => (labware' = labware /\ pipettes' = pipettes)
       /\ (frame.op = "loadCustomLabware" \/ frame'.op = "loadCustomLabware")
          => (labware' = labware /\ pipettes' = pipettes)]_vars

\* a moveToWell command is on the wire while both registries hold an entry
C18_Witness ==
    /\ pc = "wait"
    /\ frame.op = "moveToWell"
    /\ labware # EmptyDict
    /\ pipettes # EmptyDict
    /\ wire.data.params.labwareId = "lw-1"

\* C19: a request is outstanding exactly while a method is blocked, and there
\* is one place for it; a step that emits a request is either the start of a
\* call made while nothing is outstanding or the step in which the blocked
\* method receives the answer to the outstanding request, and every step
\* taken while a request is outstanding is the receipt of its answer.
C19_OneRequestAtATime ==
    /\ [](pc = "wait" <=> wire # NoRequest)
    /\ [](pc = "wait" <=> frame # NoFrame)
    /\ [][nSent' # nSent
            => /\ nSent' = nSent + 1
               /\ pc' = "wait"
               /\ wire = NoRequest \/ \E r \in Responses : AnyResponse(r)]_vars
    /\ [][pc = "wait" => \E r \in Responses : AnyResponse(r)]_vars
    /\ [][pc' = "wait" => nSent' = nSent + 1]_vars

\* the loadLabware command of a loadCustomLabware call is on the wire as the
\* fourth request of the session: the answer to the definition post was
\* received before it was emitted
C19_Witness ==
    /\ InnerLoadLabware(pc, frame)
    /\ nSent = 4
    /\ labware # EmptyDict

\* the first request of a call that may make a second one is outstanding
FirstOfTwo ==
    pc = "wait" /\ (frame.op = "loadCustomLabware" \/ InOffsetsRunInfo)

\* C20: a method that has received an answer emits a further request only in
\* loadCustomLabware after its definition post and in addLabwareOffsets after
\* its run-info GET, and then only on the expected status and with a request
\* that differs from the one answered; the answer to that second request,
\* and the answer to the single request of every other method, ends the
\* call; an answer with an unexpected status always ends the call with
\* nothing further sent.  So a call emits at most two requests in
\* loadCustomLabware and addLabwareOffsets and at most one in the others.
C20_NoRetries ==
    /\ [][(pc = "wait" /\ pc' = "wait")
            => /\ FirstOfTwo
               /\ wire' # wire
               /\ nSent' = nSent + 1
               /\ frame'.op \in {"loadLabware", "addLabwareOffsets"}
               /\ frame'.op = "loadLabware" => frame.op = "loadCustomLabware"
               /\ frame'.op = "addLabwareOffsets" => frame.op = "getRunInfo"]_vars
    /\ [][(pc = "wait" /\ ~FirstOfTwo)
            => (pc' \in {"ready", "failed"} /\ nSent' = nSent)]_vars
    /\ [][\A r \in Responses :
            (pc = "wait" /\ AnyResponse(r) /\ r.status_code # ExpectedStatus(wire))
            => /\ nSent' = nSent
               /\ wire' = NoRequest
               /\ pc' \in {"ready", "failed"}]_vars
    /\ [][(pc = "ready" /\ pc' = "wait") => nSent' = nSent + 1]_vars

\* an aspirate command was refused with 500 and the call has ended; it was
\* the session's fourth and last request
C20_Witness ==
    /\ pc = "ready"
    /\ outcome.status = "raised"
    /\ outcome.error.kind = "Failed to aspirate."
    /\ outcome.error.code = 500
    /\ wire = NoRequest
    /\ nSent = 4

\* C21: with a remote that answers every request, a blocked method gets out
\* of every request it waits on, and a call ends by returning or raising; a
\* blocked method is released by nothing but the answer: the step that ends
\* the wait returns or goes on upon the expected status, or raises with the
\* status and body of the answer or with an error of reading its body, so
\* without an answer the method neither returns nor raises.
C21_BlocksUntilAnswered ==
    /\ (pc = "wait") ~> (pc \in {"ready", "failed"} /\ outcome.status \in {"returned", "raised"})
    /\ [][pc = "wait"
            => \E r \in Responses :
                 /\ AnyResponse(r)
                 /\ \/ r.status_code = ExpectedStatus(wire)
                       /\ \/ pc' = "wait"
                          \/ outcome'.status = "returned"
                          \/ outcome'.status = "raised"
                               /\ outcome'.error.kind \in
                                     {"KeyError", "Labware not found in run information."}
                    \/ r.status_code # ExpectedStatus(wire)
                       /\ outcome'.status = "raised"
                       /\ outcome'.error.code = r.status_code
                       /\ outcome'.error.text = r.text]_vars

\* a blowout that was answered has returned
C21_Witness ==
    /\ pc = "ready"
    /\ outcome.status = "returned"
    /\ nSent = 4
    /\ labware # EmptyDict
    /\ pipettes # EmptyDict
    /\ outcome.value = None

\* C22: a pickUpTip, dropTip, aspirate, dispense, blowout or moveToWell
\* command that is answered 201 makes the call return None, with nothing
\* raised and nothing further sent, whatever the body is: one that reports
\* the command as succeeded, one that reports it as failed, or one without a
\* status.
C22_BodyOf201NotInterpreted ==
    /\ [][\A r \in Responses :
            (pc = "wait" /\ frame.op \in MotionOps /\ AnyResponse(r) /\ r.status_code = 201)
            => /\ pc' = "ready"
               /\ outcome'.status = "returned"
               /\ outcome'.value = None
               /\ outcome'.error = NoError
               /\ nSent' = nSent]_vars
    /\ [][(pc = "wait" /\ frame.op \in MotionOps)
            => \A b \in Bodies :
                 ENABLED (AnyResponse([status_code |-> 201, text |-> b])
                            /\ outcome'.status = "returned")]_vars
    /\ \E b \in Bodies : b.status = "failed"

\* a motion or liquid command has returned in a session whose registered ids
\* are those of the body that reports its command as failed
C22_Witness ==
    /\ pc = "ready"
    /\ outcome = Returned(None)
    /\ nSent = 4
    /\ \E a \in DOMAIN labware : labware[a].id = "lw-2"
    /\ \E q \in DOMAIN pipettes : pipettes[q].id = "pip-2"

C25_FirstRaiseHaltsRun ==
    [][outcome.status = "raised"
          => UNCHANGED <<pc, nSent, wire, frame, outcome, line, fill, labware, pipettes>>]_vars

\* a call inside the second fillWell has raised on its answer, tip still held
C25_Witness ==
    /\ outcome.status = "raised"
    /\ line = 18
    /\ fill.at = "loop_dispense"
    /\ hist.tip # NoTip
    /\ nSent > 20

\* C26: fillWell never asks the client to move more than 1000 uL at once:
\* whatever integer intVolume it is called with, every aspirate and every
\* dispense it issues has a volume of at most 1000.
C26_AtMostMaxTransferAtOnce ==
    [][nSent' > nSent /\ frame'.op \in {"aspirate", "dispense"}
          => /\ frame'.intVolume <= MaxTransfer
             /\ wire'.data.params.volume =
                  IF frame'.op = "aspirate" THEN ToString(frame'.intVolume)
                                            ELSE frame'.intVolume]_vars

\* 3400 uL asked for: after three chunks of 1000 the rest of 400 is dispensed
C26_Witness ==
    /\ pc = "wait"
    /\ frame.op = "dispense"
    /\ fill.at = "rest_dispense"
    /\ hist.requested = 3400
    /\ frame.intVolume = 400
    /\ hist.dispensed = 3400

\* C27: fillWell conserves volume: called with intVolume >= 1 and every client
\* call returning, the aspirated volumes sum to intVolume and so do the
\* dispensed volumes; every aspirate is followed by a dispense of the same
\* volume before the next aspirate; every volume is in 1..1000, so there is
\* no transfer of a zero rest, also for multiples of 1000.
C27_VolumeConserved ==
    /\ [](line = Len(FillProgram(0)) + 1 /\ hist.requested >= 1
            => /\ hist.aspirated = hist.requested
               /\ hist.dispensed = hist.requested
               /\ ~hist.holding)
    /\ [][hist.requested >= 1 /\ nSent' > nSent /\ frame'.op = "aspirate"
            => /\ ~hist.holding
               /\ frame'.intVolume \in 1..MaxTransfer]_vars
    /\ [][hist.requested >= 1 /\ nSent' > nSent /\ frame'.op = "dispense"
            => /\ hist.holding
               /\ frame'.intVolume = hist.pending
               /\ frame'.intVolume \in 1..MaxTransfer]_vars

\* fillWell has returned from a transfer of 2000 uL, a multiple of 1000
C27_Witness ==
    /\ line = Len(FillProgram(0)) + 1
    /\ outcome.status = "returned"
    /\ hist.requested = 2000
    /\ hist.aspirated = 2000
    /\ hist.dispensed = 2000

\* the number of client calls of fillWell(intVolume): 4 * max(1, ceil(intVolume / 1000))
C28_ExpectedCalls(intVolume) ==
    IF intVolume <= MaxTransfer THEN 4
    ELSE 4 * ((intVolume + MaxTransfer - 1) \div MaxTransfer)

\* C28: fillWell terminates for every integer intVolume when every client call
\* returns, after exactly 4 * max(1, ceil(intVolume / 1000)) client calls in
\* the repeating order moveToWell(source), aspirate, moveToWell(destination),
\* dispense; for intVolume <= 0 it still makes one aspirate and one dispense,
\* with that non-positive volume.
C28_FillWellTerminates ==
    /\ <>(\/ line = Len(FillProgram(0)) + 1
          \/ outcome.status = "raised"
          \/ pc = "failed")
    /\ [](line = Len(FillProgram(0)) + 1
            => /\ hist.calls = C28_ExpectedCalls(hist.requested)
               /\ hist.requested <= 0
                    => hist.aspirated = hist.requested /\ hist.dispensed = hist.requested)
    /\ [][line = Len(FillProgram(0)) /\ nSent' > nSent
            => /\ hist'.calls = hist.calls + 1
               /\ hist'.calls <= C28_ExpectedCalls(hist'.requested)
               /\ frame'.strPipetteName = "p1000_single_gen2"
               /\ CASE hist.calls % 4 = 0 ->
                         /\ frame'.op = "moveToWell"
                         /\ frame'.strLabwareName = ids["strID_vialRack"]
                         /\ frame'.strWellName = "A1"
                    [] hist.calls % 4 = 1 ->
                         /\ frame'.op = "aspirate"
                         /\ frame'.strLabwareName = ids["strID_vialRack"]
                         /\ frame'.strWellName = "A1"
                    [] hist.calls % 4 = 2 ->
                         /\ frame'.op = "moveToWell"
                         /\ frame'.strLabwareName = ids["strID_autodialCell"]
                         /\ frame'.strWellName = "A2"
                    [] hist.calls % 4 = 3 ->
                         /\ frame'.op = "dispense"
                         /\ frame'.strLabwareName = ids["strID_autodialCell"]
                         /\ frame'.strWellName = "A2"]_vars

\* fillWell has returned from a transfer of 1001 uL, after eight calls
C28_Witness ==
    /\ line = Len(FillProgram(0)) + 1
    /\ outcome.status = "returned"
    /\ hist.requested = 1001
    /\ hist.calls = 8
    /\ hist.dispensed = 1001

\* the statements of the script that submit motion and liquid commands
C29_CommandStatements == {"moveToWell", "pickUpTip", "dropTip", "fillWell"}

\* C29: in the run script, every load having succeeded, every labware and
\* pipette alias a moveToWell, pickUpTip, dropTip, aspirate or dispense refers
\* to (those of fillWell and washElectrode included) was registered by an
\* earlier load: no command of the script fails on an unknown alias, each is
\* sent.
C29_AliasesRegisteredBeforeUse ==
    [][(/\ pc = "ready"
        /\ line \in 1..Len(RunScript)
        /\ RunScript[line].op \in C29_CommandStatements
        /\ <<pc, outcome>>' # <<pc, outcome>>)
          => /\ pc' = "wait"
             /\ nSent' = nSent + 1
             /\ frame'.op \in {"moveToWell", "pickUpTip", "dropTip", "aspirate", "dispense"}
             /\ frame'.strLabwareName \in DOMAIN labware
             /\ frame'.strPipetteName \in DOMAIN pipettes
             /\ \E v \in ScriptVariables : ids[v] = frame'.strLabwareName
             /\ wire'.data.params.labwareId = labware[frame'.strLabwareName].id
             /\ wire'.data.params.pipetteId = pipettes[frame'.strPipetteName].id]_vars

\* washElectrode's second move to the wash station is sent, with the alias the
\* load of the wash station returned
C29_Witness ==
    /\ line = 26
    /\ pc = "wait"
    /\ frame.op = "moveToWell"
    /\ frame.strLabwareName = ids["strID_washStation"]
    /\ ids["strID_washStation"] = "nis_2_wellplate_30000ul_3"
    /\ Cardinality(DOMAIN labware) = 6

\* C30: in the command sequence of the run script pickUpTip and dropTip
\* alternate strictly, pickUpTip first and dropTip last; each dropTip names
\* the labware and well of the pickUpTip before it; every aspirate and
\* dispense is issued while a tip is held; when the script is through, no tip
\* is held.
C30_TipsAlternate ==
    /\ [][nSent' > nSent /\ frame'.op = "pickUpTip" => hist.tip = NoTip]_vars
    /\ [][nSent' > nSent /\ frame'.op = "dropTip"
            => /\ hist.tip # NoTip
               /\ hist.tip.labware = frame'.strLabwareName
               /\ hist.tip.well = frame'.strWellName]_vars
    /\ [][nSent' > nSent /\ frame'.op \in {"aspirate", "dispense"}
            => hist.tip # NoTip]_vars
    /\ [](line = Len(RunScript) + 1 => hist.tip = NoTip /\ hist.tips = 3)

\* the script is through: three tips were picked up and the last one dropped
C30_Witness ==
    /\ line = Len(RunScript) + 1
    /\ outcome.status = "returned"
    /\ hist.tips = 3
    /\ hist.tip = NoTip
    /\ nSent > 50

====
